---- MODULE Spec2Model ----
(***************************************************************************)
(* Model of ai-provenance's inline-metadata engine:                        *)
(*   src/src/ai_provenance/parsers/stamper.py  (stamp, scan, hunks)        *)
(*   src/src/ai_provenance/core/models.py      (enums, InlineMetadata)     *)
(*                                                                         *)
(* Text is modelled character by character: a Python str is a sequence of  *)
(* one-character strings, a file's content is one such sequence in which   *)
(* "\n" separates the lines.  An Optional value is a sequence of length 0  *)
(* (None) or 1 (the value).                                                *)
(***************************************************************************)
EXTENDS Integers, Sequences, FiniteSets, TLC

(***************************************************************************)
(* Bounds of the model.                                                    *)
(***************************************************************************)
MaxLines == 3
MaxStampLines == 2
MaxStamps == 3
MaxIds == 2
MaxBlocks == 2
MaxLineNumber == 3
MaxCalls == 3

(***************************************************************************)
(* Python str and re primitives used by the code.                          *)
(***************************************************************************)
NL == "\n"

None == <<>>

Some(v) == <<v>>

\* characters matched by \s and removed by str.strip()
WS == {" ", "\t", "\n", "\r"}

\* characters of the class [#/\-*] of the three tag patterns
MARK == {"#", "/", "-", "*"}

SetMin(S) == CHOOSE m \in S : \A x \in S : m <= x

\* s[i:] starts with p   (i is 1-based)
IsPrefixAt(s, p, i) ==
    /\ i + Len(p) - 1 <= Len(s)
    /\ \A k \in 1..Len(p) : s[i + k - 1] = p[k]

\* str.startswith
StartsWith(s, p) == IsPrefixAt(s, p, 1)

\* the first occurrence of p in s at or after i, 0 when there is none
RECURSIVE FindFrom(_, _, _)
FindFrom(s, p, i) ==
    IF i + Len(p) - 1 > Len(s) THEN 0
    ELSE IF IsPrefixAt(s, p, i) THEN i
    ELSE FindFrom(s, p, i + 1)

\* str.find, 1-based; 0 when p does not occur in s
StrFind(s, p) == FindFrom(s, p, 1)

\* the `in` operator on strings
StrContains(s, p) == StrFind(s, p) # 0

\* first index j >= i with s[j] outside cls, Len(s)+1 when there is none:
\* the end of a greedy run cls* that starts at i
RECURSIVE SkipRun(_, _, _)
SkipRun(s, i, cls) ==
    IF i > Len(s) \/ s[i] \notin cls THEN i ELSE SkipRun(s, i + 1, cls)

\* str.lstrip(), str.rstrip(), str.strip()
LStrip(s) == SubSeq(s, SkipRun(s, 1, WS), Len(s))

RECURSIVE RStrip(_)
RStrip(s) ==
    IF Len(s) > 0 /\ s[Len(s)] \in WS THEN RStrip(SubSeq(s, 1, Len(s) - 1)) ELSE s

Strip(s) == LStrip(RStrip(s))

\* str.split(sep): always at least one element
RECURSIVE StrSplit(_, _)
StrSplit(s, sep) ==
    LET i == StrFind(s, sep)
    IN  IF i = 0 THEN <<s>>
        ELSE <<SubSeq(s, 1, i - 1)>> \o StrSplit(SubSeq(s, i + Len(sep), Len(s)), sep)

\* str.split(sep, 1) of a string that contains sep
StrSplit1(s, sep) ==
    LET i == StrFind(s, sep)
    IN  <<SubSeq(s, 1, i - 1), SubSeq(s, i + Len(sep), Len(s))>>

\* sep.join(parts)
RECURSIVE StrJoin(_, _)
StrJoin(parts, sep) ==
    IF Len(parts) = 0 THEN <<>>
    ELSE IF Len(parts) = 1 THEN parts[1]
    ELSE parts[1] \o sep \o StrJoin(Tail(parts), sep)

\* str.replace(old, new): leftmost non-overlapping occurrences
RECURSIVE StrReplace(_, _, _)
StrReplace(s, old, new) ==
    LET i == StrFind(s, old)
    IN  IF i = 0 THEN s
        ELSE SubSeq(s, 1, i - 1) \o new
             \o StrReplace(SubSeq(s, i + Len(old), Len(s)), old, new)

\* [f(x) for x in xs]
MapStrip(xs) == [k \in 1..Len(xs) |-> Strip(xs[k])]

(***************************************************************************)
(* core/models.py: the enums.                                              *)
(***************************************************************************)
CLAUDE == <<"c", "l", "a", "u", "d", "e">>
COPILOT == <<"c", "o", "p", "i", "l", "o", "t">>
CHATGPT == <<"c", "h", "a", "t", "g", "p", "t">>
GEMINI == <<"g", "e", "m", "i", "n", "i">>
CURSOR == <<"c", "u", "r", "s", "o", "r">>
OTHER_ == <<"o", "t", "h", "e", "r">>

AITool == {CLAUDE, COPILOT, CHATGPT, GEMINI, CURSOR, OTHER_}

HIGH == <<"h", "i", "g", "h">>
MEDIUM == <<"m", "e", "d">>
LOW == <<"l", "o", "w">>

Confidence == {HIGH, MEDIUM, LOW}

(***************************************************************************)
(* parsers/stamper.py: the file scanner and the hunk extractor.            *)
(***************************************************************************)
AI_KEY == <<"a", "i", ":">>
COLON == <<":">>
COMMA == <<",">>
PIPE == <<"|">>
KEY_TRACE == <<"t", "r", "a", "c", "e">>
KEY_TEST == <<"t", "e", "s", "t">>
KEY_REVIEWED == <<"r", "e", "v", "i", "e", "w", "e", "d">>

\* the empty dict; a key that is not set is None
EmptyDict ==
    [tool |-> None, confidence |-> None, trace |-> None, tests |-> None,
     reviewed |-> None]

\* `^\s*[#/\-*]+\s*` at the start of a line (an element of
\* content.split("\n"), so without "\n"): the index after the greedy runs,
\* 0 when the marker run is empty.  The three classes and the letter `a`
\* are disjoint, so backtracking finds no other match.
MarkerPrefixEnd(line) ==
    LET a == SkipRun(line, 1, WS)
        b == SkipRun(line, a, MARK)
    IN  IF b > a THEN SkipRun(line, b, WS) ELSE 0

\* re.search(r"^\s*[#/\-*]+\s*(ai:.+)$", line): group 1, None when no match
metadata_pattern(line) ==
    LET c == MarkerPrefixEnd(line)
    IN  IF c # 0 /\ IsPrefixAt(line, AI_KEY, c) /\ Len(line) >= c + Len(AI_KEY)
        THEN Some(SubSeq(line, c, Len(line))) ELSE None

\* re.search(r"^\s*[#/\-*]+\s*ai:", lines[i]) of __find_hunk_end
boundary_pattern(line) ==
    LET c == MarkerPrefixEnd(line)
    IN  c # 0 /\ IsPrefixAt(line, AI_KEY, c)

\* the key/value arm with a key that is not recognized ending the decoding
parse_key_value_strict(metadata, part) ==
    LET kv == StrSplit1(part, COLON)
        key == Strip(kv[1])
        value == Strip(kv[2])
    IN  IF key = KEY_TRACE THEN [metadata EXCEPT !.trace = Some(value)]
        ELSE IF key = KEY_TEST
        THEN [metadata EXCEPT !.tests = Some(MapStrip(StrSplit(value, COMMA)))]
        ELSE IF key = KEY_REVIEWED THEN [metadata EXCEPT !.reviewed = Some(value)]
        ELSE EmptyDict

\* the key/value arm with the test identifiers kept as they are split
parse_key_value_untrimmed(metadata, part) ==
    LET kv == StrSplit1(part, COLON)
        key == Strip(kv[1])
        value == Strip(kv[2])
    IN  IF key = KEY_TRACE THEN [metadata EXCEPT !.trace = Some(value)]
        ELSE IF key = KEY_TEST
        THEN [metadata EXCEPT !.tests = Some(StrSplit(value, COMMA))]
        ELSE IF key = KEY_REVIEWED THEN [metadata EXCEPT !.reviewed = Some(value)]
        ELSE metadata

\* the key/value arm shared by the loops of __parse_metadata_string and
\* InlineMetadata.parse_comment
parse_key_value(metadata, part) ==
    LET kv == StrSplit1(part, COLON)
        key == Strip(kv[1])
        value == Strip(kv[2])
    IN  IF key = KEY_TRACE THEN [metadata EXCEPT !.trace = Some(value)]
        ELSE IF key = KEY_TEST
        THEN [metadata EXCEPT !.tests = Some(MapStrip(StrSplit(value, COMMA)))]
        ELSE IF key = KEY_REVIEWED THEN [metadata EXCEPT !.reviewed = Some(value)]
        ELSE metadata

\* one iteration of `for part in parts` of __parse_metadata_string
parse_metadata_part(metadata, part) ==
    IF StartsWith(part, AI_KEY)
    THEN LET ai_parts == StrSplit(part, COLON)
             m1 == IF Len(ai_parts) >= 2
                   THEN [metadata EXCEPT !.tool = Some(ai_parts[2])]
                   ELSE metadata
         IN  IF Len(ai_parts) >= 3
             THEN [m1 EXCEPT !.confidence = Some(ai_parts[3])]
             ELSE m1
    ELSE IF StrContains(part, COLON) THEN parse_key_value(metadata, part)
    ELSE metadata

RECURSIVE parse_metadata_parts(_, _)
parse_metadata_parts(metadata, parts) ==
    IF Len(parts) = 0 THEN metadata
    ELSE parse_metadata_parts(parse_metadata_part(metadata, Head(parts)), Tail(parts))

\* _parse_metadata_string: the dict, None when it is empty
_parse_metadata_string(metadata_str) ==
    LET metadata == parse_metadata_parts(EmptyDict, MapStrip(StrSplit(metadata_str, PIPE)))
    IN  IF metadata # EmptyDict THEN Some(metadata) ELSE None

\* the loop of parse_inline_metadata from line number n on
RECURSIVE scan_lines(_, _)
scan_lines(lines, n) ==
    IF n > Len(lines) THEN <<>>
    ELSE LET match == metadata_pattern(lines[n])
             metadata == IF match = None THEN None
                         ELSE _parse_metadata_string(match[1])
         IN  (IF metadata # None THEN <<<<n, metadata[1]>>>> ELSE <<>>)
             \o scan_lines(lines, n + 1)

\* parse_inline_metadata with enumerate() counting from 0
parse_inline_metadata_from_zero(text) ==
    LET results == scan_lines(StrSplit(text, <<NL>>), 1)
    IN  [k \in 1..Len(results) |-> <<results[k][1] - 1, results[k][2]>>]

\* parse_inline_metadata on the content of an existing file
parse_inline_metadata(text) == scan_lines(StrSplit(text, <<NL>>), 1)

\* _find_hunk_end with the hunk closed on the next tag's own line
find_hunk_end_on_next_tag(lines, start) ==
    LET hits == {i \in start..(Len(lines) - 1) : boundary_pattern(lines[i + 1])}
    IN  IF hits # {} THEN SetMin(hits) + 1 ELSE Len(lines)

\* _find_hunk_end: i ranges over range(start, len(lines)), lines[i] is the
\* 0-based element, i.e. the 1-based line i + 1
_find_hunk_end(lines, start) ==
    LET hits == {i \in start..(Len(lines) - 1) : boundary_pattern(lines[i + 1])}
    IN  IF hits # {} THEN SetMin(hits) - 1 ELSE Len(lines)

\* find_ai_hunks on the content of an existing file
find_ai_hunks(text) ==
    LET metadata_lines == parse_inline_metadata(text)
        lines == StrSplit(text, <<NL>>)
    IN  [k \in 1..Len(metadata_lines) |->
            <<metadata_lines[k][1],
              _find_hunk_end(lines, metadata_lines[k][1]),
              metadata_lines[k][2]>>]

(***************************************************************************)
(* parsers/stamper.py: the comment-style resolver and the encoder.         *)
(***************************************************************************)
\* the dict COMMENT_STYLES as its <<key, value>> items
COMMENT_STYLES ==
    <<
       <<<<".", "p", "y">>, <<"#">>>>,
       <<<<".", "r", "b">>, <<"#">>>>,
       <<<<".", "s", "h">>, <<"#">>>>,
       <<<<".", "b", "a", "s", "h">>, <<"#">>>>,
       <<<<".", "y", "a", "m", "l">>, <<"#">>>>,
       <<<<".", "y", "m", "l">>, <<"#">>>>,
       <<<<".", "t", "o", "m", "l">>, <<"#">>>>,
       <<<<".", "r">>, <<"#">>>>,
       <<<<".", "j", "s">>, <<"/", "/">>>>,
       <<<<".", "t", "s">>, <<"/", "/">>>>,
       <<<<".", "j", "s", "x">>, <<"/", "/">>>>,
       <<<<".", "t", "s", "x">>, <<"/", "/">>>>,
       <<<<".", "j", "a", "v", "a">>, <<"/", "/">>>>,
       <<<<".", "c">>, <<"/", "/">>>>,
       <<<<".", "c", "p", "p">>, <<"/", "/">>>>,
       <<<<".", "c", "c">>, <<"/", "/">>>>,
       <<<<".", "h">>, <<"/", "/">>>>,
       <<<<".", "h", "p", "p">>, <<"/", "/">>>>,
       <<<<".", "c", "s">>, <<"/", "/">>>>,
       <<<<".", "g", "o">>, <<"/", "/">>>>,
       <<<<".", "r", "s">>, <<"/", "/">>>>,
       <<<<".", "s", "w", "i", "f", "t">>, <<"/", "/">>>>,
       <<<<".", "k", "t">>, <<"/", "/">>>>,
       <<<<".", "s", "c", "a", "l", "a">>, <<"/", "/">>>>,
       <<<<".", "p", "h", "p">>, <<"/", "/">>>>,
       <<<<".", "s", "q", "l">>, <<"-", "-">>>>,
       <<<<".", "l", "u", "a">>, <<"-", "-">>>>,
       <<<<".", "h", "s">>, <<"-", "-">>>>,
       <<<<".", "m", "l">>, <<"(", "*">>>>,
       <<<<".", "e", "x">>, <<"#">>>>,
       <<<<".", "e", "x", "s">>, <<"#">>>>
    >>

DEFAULT_STYLE == <<"#">>
BLOCK_ML == <<"(", "*">>
BLOCK_ML_END == <<"*", ")">>
BLOCK_C == <<"/", "*">>
BLOCK_C_END == <<"*", "/">>

UPPERCASE == <<"A", "B", "C", "D", "E", "F", "G", "H", "I", "J", "K", "L", "M", "N", "O", "P", "Q", "R", "S", "T", "U", "V", "W", "X", "Y", "Z">>
LOWERCASE == <<"a", "b", "c", "d", "e", "f", "g", "h", "i", "j", "k", "l", "m", "n", "o", "p", "q", "r", "s", "t", "u", "v", "w", "x", "y", "z">>

\* str.lower() on the letters A-Z
Lower(s) ==
    [k \in 1..Len(s) |->
        IF \E u \in 1..Len(UPPERCASE) : UPPERCASE[u] = s[k]
        THEN LOWERCASE[CHOOSE u \in 1..Len(UPPERCASE) : UPPERCASE[u] = s[k]]
        ELSE s[k]]

\* the last occurrence of the character c in s at or before i, 0 when there
\* is none (str.rfind)
RECURSIVE RFindFrom(_, _, _)
RFindFrom(s, c, i) ==
    IF i < 1 THEN 0
    ELSE IF s[i] = c THEN i
    ELSE RFindFrom(s, c, i - 1)

\* Path(file_path).name: the last component of the path
PathName(file_path) ==
    SubSeq(file_path, RFindFrom(file_path, "/", Len(file_path)) + 1, Len(file_path))

\* Path(file_path).suffix: the name from its last dot on, "" when the name
\* has no dot or the dot is its first or its last character
PathSuffix(file_path) ==
    LET name == PathName(file_path)
        i == RFindFrom(name, ".", Len(name))
    IN  IF 1 < i /\ i < Len(name) THEN SubSeq(name, i, Len(name)) ELSE <<>>

\* detect_comment_style with the extension looked up as it is spelled
detect_comment_style_as_spelled(suffix) ==
    LET hit == {k \in 1..Len(COMMENT_STYLES) : COMMENT_STYLES[k][1] = suffix}
    IN  IF hit # {} THEN COMMENT_STYLES[CHOOSE k \in hit : TRUE][2]
        ELSE DEFAULT_STYLE

\* detect_comment_style, given Path(file_path).suffix
detect_comment_style(suffix) ==
    LET ext == Lower(suffix)
        hit == {k \in 1..Len(COMMENT_STYLES) : COMMENT_STYLES[k][1] = ext}
    IN  IF hit # {} THEN COMMENT_STYLES[CHOOSE k \in hit : TRUE][2]
        ELSE DEFAULT_STYLE

\* what an f-string {x} gives for an Optional[str]
FString(x) == IF x = None THEN <<"N", "o", "n", "e">> ELSE x[1]

\* format_inline_metadata; confidence and reviewer are Optional[str], trace
\* and tests are lists (None and [] are both falsy), today is the value of
\* datetime.utcnow().strftime("%Y-%m-%d")
format_inline_metadata(tool, confidence, trace, tests, reviewer, comment_style, today) ==
    LET p_ai == <<AI_KEY \o tool \o COLON \o FString(confidence)>>
        p_trace == IF Len(trace) > 0
                   THEN <<KEY_TRACE \o COLON \o StrJoin(trace, COMMA)>> ELSE <<>>
        p_test == IF Len(tests) > 0
                  THEN <<KEY_TEST \o COLON \o StrJoin(tests, COMMA)>> ELSE <<>>
        p_rev == IF reviewer # None /\ Len(reviewer[1]) > 0
                 THEN LET reviewer_name ==
                              IF StrContains(reviewer[1], <<"@">>)
                              THEN StrSplit(reviewer[1], <<"@">>)[1]
                              ELSE reviewer[1]
                      IN  <<KEY_REVIEWED \o COLON \o today \o COLON \o reviewer_name>>
                 ELSE <<>>
        metadata == StrJoin(p_ai \o p_trace \o p_test \o p_rev, <<" ", "|", " ">>)
    IN  IF comment_style = BLOCK_ML
        THEN BLOCK_ML \o <<" ">> \o metadata \o <<" ">> \o BLOCK_ML_END
        ELSE IF comment_style = BLOCK_C
        THEN BLOCK_C \o <<" ">> \o metadata \o <<" ">> \o BLOCK_C_END
        ELSE comment_style \o <<" ">> \o metadata

(***************************************************************************)
(* core/models.py: InlineMetadata.parse_comment, the decoder.              *)
(***************************************************************************)
\* the markers removed by `for marker in ["#", "//", "/*", "*/"]`
COMMENT_MARKERS == <<<<"#">>, <<"/", "/">>, BLOCK_C, BLOCK_C_END>>

RECURSIVE remove_markers(_, _)
remove_markers(clean, markers) ==
    IF Len(markers) = 0 THEN clean
    ELSE remove_markers(StrReplace(clean, Head(markers), <<>>), Tail(markers))

\* `clean` at the test `if not clean.startswith("ai:")`
clean_comment(comment) == Strip(remove_markers(Strip(comment), COMMENT_MARKERS))

\* the iteration of parse_comment with the third token kept as it is written
parse_comment_part_raw_confidence(metadata, part) ==
    IF StartsWith(part, AI_KEY)
    THEN LET ai_parts == StrSplit(part, COLON)
             m1 == IF Len(ai_parts) >= 2
                   THEN [metadata EXCEPT !.tool =
                            IF ai_parts[2] \in AITool THEN Some(ai_parts[2])
                            ELSE Some(OTHER_)]
                   ELSE metadata
         IN  IF Len(ai_parts) >= 3
             THEN [m1 EXCEPT !.confidence = Some(ai_parts[3])]
             ELSE m1
    ELSE IF StrContains(part, COLON) THEN parse_key_value(metadata, part)
    ELSE metadata

\* one iteration of `for part in parts` of parse_comment
parse_comment_part(metadata, part) ==
    IF StartsWith(part, AI_KEY)
    THEN LET ai_parts == StrSplit(part, COLON)
             m1 == IF Len(ai_parts) >= 2
                   THEN [metadata EXCEPT !.tool =
                            IF ai_parts[2] \in AITool THEN Some(ai_parts[2])
                            ELSE Some(OTHER_)]
                   ELSE metadata
         IN  IF Len(ai_parts) >= 3 /\ ai_parts[3] \in Confidence
             THEN [m1 EXCEPT !.confidence = Some(ai_parts[3])]
             ELSE m1
    ELSE IF StrContains(part, COLON) THEN parse_key_value(metadata, part)
    ELSE metadata

RECURSIVE parse_comment_parts(_, _)
parse_comment_parts(metadata, parts) ==
    IF Len(parts) = 0 THEN metadata
    ELSE parse_comment_parts(parse_comment_part(metadata, Head(parts)), Tail(parts))

\* InlineMetadata.parse_comment: the InlineMetadata (its unset fields
\* None), or None
parse_comment(comment) ==
    LET clean == clean_comment(comment)
    IN  IF ~StartsWith(clean, AI_KEY) THEN None
        ELSE LET metadata ==
                     parse_comment_parts(EmptyDict, MapStrip(StrSplit(clean, PIPE)))
             IN  IF metadata # EmptyDict THEN Some(metadata) ELSE None

(***************************************************************************)
(* core/models.py: CommitMessage.parse.                                    *)
(***************************************************************************)
AI_TAG_OPEN == <<"[", "A", "I", ":">>
BRACKET_CLOSE == <<"]">>
PAREN_OPEN == <<"(">>
PAREN_CLOSE == <<")">>
BODY_TRACE == <<"T", "r", "a", "c", "e", ":">>
BODY_TEST == <<"T", "e", "s", "t", ":">>
BODY_REVIEWED_BY == <<"R", "e", "v", "i", "e", "w", "e", "d", "-", "b", "y", ":">>

\* the dict `data` before the first line is parsed
CommitData(message, first_line) ==
    [raw |-> message, ai_tag |-> None, conventional_type |-> None, scope |-> None,
     subject |-> first_line, trace |-> None, tests |-> None, reviewed_by |-> None]

\* the block `# Parse AI tag` with the brackets kept in the tag
parse_ai_tag_with_brackets(first_line) ==
    LET ai_end == StrFind(first_line, BRACKET_CLOSE) - 1
    IN  IF StartsWith(first_line, AI_TAG_OPEN) /\ ai_end > 0
        THEN [ai_tag |-> Some(SubSeq(first_line, 1, ai_end + 1)),
              first_line |-> Strip(SubSeq(first_line, ai_end + 2, Len(first_line)))]
        ELSE [ai_tag |-> None, first_line |-> first_line]

\* the block `# Parse AI tag`: the tag if any, and what is left of first_line
parse_ai_tag(first_line) ==
    LET ai_end == StrFind(first_line, BRACKET_CLOSE) - 1
    IN  IF StartsWith(first_line, AI_TAG_OPEN) /\ ai_end > 0
        THEN [ai_tag |-> Some(SubSeq(first_line, 2, ai_end)),
              first_line |-> Strip(SubSeq(first_line, ai_end + 2, Len(first_line)))]
        ELSE [ai_tag |-> None, first_line |-> first_line]

\* the block `# Parse conventional commit type(scope): subject`
parse_conventional(data, first_line) ==
    IF StrContains(first_line, COLON)
    THEN LET prefix == StrSplit1(first_line, COLON)[1]
             subject == StrSplit1(first_line, COLON)[2]
             d1 == [data EXCEPT !.subject = Strip(subject)]
         IN  IF StrContains(prefix, PAREN_OPEN) /\ StrContains(prefix, PAREN_CLOSE)
             THEN LET conv_type == StrSplit1(prefix, PAREN_OPEN)[1]
                      rest == StrSplit1(prefix, PAREN_OPEN)[2]
                      scope == StrSplit(rest, PAREN_CLOSE)[1]
                  IN  [d1 EXCEPT !.conventional_type = Some(Strip(conv_type)),
                                 !.scope = Some(Strip(scope))]
             ELSE [d1 EXCEPT !.conventional_type = Some(Strip(prefix))]
    ELSE data

\* one iteration of `for line in lines[1:]`
parse_body_line(data, raw_line) ==
    LET line == Strip(raw_line)
    IN  IF StartsWith(line, BODY_TRACE)
        THEN [data EXCEPT !.trace =
                 Some(MapStrip(StrSplit(Strip(SubSeq(line, 7, Len(line))), COMMA)))]
        ELSE IF StartsWith(line, BODY_TEST)
        THEN [data EXCEPT !.tests =
                 Some(MapStrip(StrSplit(Strip(SubSeq(line, 6, Len(line))), COMMA)))]
        ELSE IF StartsWith(line, BODY_REVIEWED_BY)
        THEN [data EXCEPT !.reviewed_by = Some(Strip(SubSeq(line, 13, Len(line))))]
        ELSE data

RECURSIVE parse_body_lines(_, _)
parse_body_lines(data, lines) ==
    IF Len(lines) = 0 THEN data
    ELSE parse_body_lines(parse_body_line(data, Head(lines)), Tail(lines))

\* CommitMessage.parse(message): the fields of the CommitMessage
CommitMessage_parse(message) ==
    LET lines == StrSplit(Strip(message), <<NL>>)
        tag == parse_ai_tag(lines[1])
        d0 == [CommitData(message, lines[1]) EXCEPT !.ai_tag = tag.ai_tag]
    IN  parse_body_lines(parse_conventional(d0, tag.first_line), Tail(lines))

(***************************************************************************)
(* core/models.py: BlockMetadata and FileMetadata.ai_percentage.           *)
(***************************************************************************)
\* validate_lines without the test of the end of the range
validate_lines_start_only(v) ==
    IF Len(v) # 2 THEN "lines must be [start, end]"
    ELSE IF v[1] < 1 THEN "Invalid line range"
    ELSE ""

\* BlockMetadata.validate_lines(v): the message of the ValueError it raises,
\* "" when it returns v
validate_lines(v) ==
    IF Len(v) # 2 THEN "lines must be [start, end]"
    ELSE IF v[1] < 1 \/ v[2] < v[1] THEN "Invalid line range"
    ELSE ""

\* BlockMetadata(kind, name, lines=lines, ai=ai): the ValidationError of the
\* field `lines` ("" when the block is built) and the block.  The length
\* constraints of Field(min_length=2, max_length=2) are checked before the
\* validator runs.
BlockMetadata(lines, ai) ==
    LET error == IF Len(lines) < 2 THEN "ValidationError: too_short"
                 ELSE IF Len(lines) > 2 THEN "ValidationError: too_long"
                 ELSE IF validate_lines(lines) # ""
                 THEN "ValidationError: " \o validate_lines(lines)
                 ELSE ""
    IN  [raised |-> error, block |-> [lines |-> lines, ai |-> ai]]

\* the loop of ai_percentage: <<total_lines, ai_lines>> after the blocks
RECURSIVE count_lines(_, _, _)
count_lines(blocks, total_lines, ai_lines) ==
    IF Len(blocks) = 0 THEN <<total_lines, ai_lines>>
    ELSE LET block == Head(blocks)
             block_lines == block.lines[2] - block.lines[1] + 1
         IN  count_lines(Tail(blocks), total_lines + block_lines,
                         IF block.ai THEN ai_lines + block_lines ELSE ai_lines)

\* ai_percentage returning the fraction of AI lines, not the percentage
ai_percentage_unscaled(blocks) ==
    IF Len(blocks) = 0 THEN [num |-> 0, den |-> 1]
    ELSE LET counts == count_lines(blocks, 0, 0)
         IN  IF counts[1] > 0 THEN [num |-> counts[2], den |-> counts[1]]
             ELSE [num |-> 0, den |-> 1]

\* FileMetadata.ai_percentage(): the float as the exact fraction num / den
ai_percentage(blocks) ==
    IF Len(blocks) = 0 THEN [num |-> 0, den |-> 1]
    ELSE LET counts == count_lines(blocks, 0, 0)
         IN  IF counts[1] > 0 THEN [num |-> counts[2] * 100, den |-> counts[1]]
             ELSE [num |-> 0, den |-> 1]

(***************************************************************************)
(* parsers/stamper.py: stamp_file.                                         *)
(***************************************************************************)
SHEBANG == <<"#", "!">>
CODING == <<"c", "o", "d", "i", "n", "g", ":">>
ENCODING == <<"e", "n", "c", "o", "d", "i", "n", "g", ":">>

\* index of the end of the line that holds position i (the `.*$` of a
\* MULTILINE pattern): the last index before the next "\n"
RECURSIVE LineEnd(_, _)
LineEnd(text, i) ==
    IF i > Len(text) \/ text[i] = NL THEN i - 1 ELSE LineEnd(text, i + 1)

\* the pattern r"^[#/\-*]+\s*ai:.*$" with re.MULTILINE tried at position p;
\* \s* also runs over "\n"
UpdateMatchAt(text, p) ==
    /\ p = 1 \/ text[p - 1] = NL
    /\ LET b == SkipRun(text, p, MARK)
       IN  b > p /\ IsPrefixAt(text, AI_KEY, SkipRun(text, b, WS))

\* the leftmost position at or after p where the pattern matches, 0 when
\* there is none
RECURSIVE FirstUpdateMatch(_, _)
FirstUpdateMatch(text, p) ==
    IF p > Len(text) THEN 0
    ELSE IF UpdateMatchAt(text, p) THEN p
    ELSE FirstUpdateMatch(text, p + 1)

\* re.sub(pattern, metadata_line, content, count=1, flags=re.MULTILINE),
\* guarded in the code by re.search of the same pattern: the leftmost match
\* is replaced, content is returned as it is when there is none.  The
\* replacement is taken literally: the encoded lines hold no backslash.
update_existing(text, metadata_line) ==
    LET p == FirstUpdateMatch(text, 1)
    IN  IF p = 0 THEN text
        ELSE LET c == SkipRun(text, SkipRun(text, p, MARK), WS)
                 e == LineEnd(text, c + Len(AI_KEY))
             IN  SubSeq(text, 1, p - 1) \o metadata_line
                 \o SubSeq(text, e + 1, Len(text))

\* list.insert(pos, x), pos 0-based
ListInsert(xs, pos, x) == SubSeq(xs, 1, pos) \o <<x>> \o SubSeq(xs, pos + 1, Len(xs))

\* the branch `if position == "top"`
insert_top(text, metadata_line) ==
    LET lines == StrSplit(text, <<NL>>)
        pos0 == IF Len(lines) > 0 /\ StartsWith(lines[1], SHEBANG) THEN 1 ELSE 0
        insert_pos ==
            IF pos0 < Len(lines)
               /\ (StrContains(lines[pos0 + 1], CODING)
                   \/ StrContains(lines[pos0 + 1], ENCODING))
            THEN pos0 + 1 ELSE pos0
    IN  StrJoin(ListInsert(lines, insert_pos, metadata_line), <<NL>>)

\* the branch `else:  # bottom`
insert_bottom(text, metadata_line) ==
    RStrip(text) \o <<NL, NL>> \o metadata_line \o <<NL>>

\* stamp_file without the validation of confidence
stamp_file_any_confidence(exists, suffix, text, tool, confidence, trace, tests, reviewer, position, today) ==
    IF ~exists THEN [raised |-> "FileNotFoundError", content |-> text]
    ELSE IF tool \notin AITool
    THEN [raised |-> "ValueError: Invalid AI tool", content |-> text]
    ELSE LET comment_style == detect_comment_style(suffix)
             metadata_line ==
                 format_inline_metadata(tool, Some(confidence), trace, tests,
                                        reviewer, comment_style, today)
         IN  [raised |-> "",
              content |->
                 IF StrContains(text, AI_KEY \o tool)
                 THEN update_existing(text, metadata_line)
                 ELSE IF position = "top" THEN insert_top(text, metadata_line)
                 ELSE insert_bottom(text, metadata_line)]

\* stamp_file: what it raises ("" when it returns) and the content of the
\* file after the call.  exists, suffix and text are the file at file_path.
stamp_file(exists, suffix, text, tool, confidence, trace, tests, reviewer, position, today) ==
    IF ~exists THEN [raised |-> "FileNotFoundError", content |-> text]
    ELSE IF tool \notin AITool
    THEN [raised |-> "ValueError: Invalid AI tool", content |-> text]
    ELSE IF confidence \notin Confidence
    THEN [raised |-> "ValueError: Invalid confidence", content |-> text]
    ELSE LET comment_style == detect_comment_style(suffix)
             metadata_line ==
                 format_inline_metadata(tool, Some(confidence), trace, tests,
                                        reviewer, comment_style, today)
         IN  [raised |-> "",
              content |->
                 IF StrContains(text, AI_KEY \o tool)
                 THEN update_existing(text, metadata_line)
                 ELSE IF position = "top" THEN insert_top(text, metadata_line)
                 ELSE insert_bottom(text, metadata_line)]

(***************************************************************************)
(* The state: one file on disk, the last call made on it and its result.   *)
(***************************************************************************)
VARIABLES
    exists,     \* Path(file_path).exists()
    suffix,     \* Path(file_path).suffix
    content,    \* the text of the file, "\n" between its lines
    ret,        \* the last call: its name, arguments, exception and value
    stamps,     \* how many stamp_file calls have returned normally
    stamped,    \* the tools those calls were made with
    fresh,      \* whether the file held no `ai:` text when the run began
    codec       \* the codec's input record, the encoded line, the decoding

vars == <<exists, suffix, content, ret, stamps, stamped, fresh, codec>>

NoCall == [op |-> "none", raised |-> "", args |-> <<>>, before |-> <<>>, value |-> <<>>]

NoCodec == [pc |-> "off"]

\* ---- inputs of the stamping runs ----
LINE_CODE == <<"x">>
LINE_BLANK == <<>>
LINE_COPILOT == <<"#", " ", "a", "i", ":", "c", "o", "p", "i", "l", "o", "t", ":", "h", "i", "g", "h">>
LINE_TEXT == <<"s", "e", "e", " ", "a", "i", ":", "c", "l", "a", "u", "d", "e">>

StampLines == {LINE_CODE, LINE_BLANK, LINE_COPILOT, LINE_TEXT}

SUFFIX_PY == <<".", "p", "y">>
SUFFIX_ML == <<".", "M", "L">>

Suffixes == {SUFFIX_PY, SUFFIX_ML}

BOGUS == <<"b", "o", "g", "u", "s">>
StampTraces == {<<>>, <<<<"S", "1">>>>}
Positions == {"top", "bottom"}
Dates == {<<"2", "0", "2", "5", "-", "1", "1", "-", "1", "6">>}

\* the arguments of the calls: every valid combination, and the three ways
\* to pass an unsupported tool or confidence
StampRequests ==
    [tool : {CLAUDE, COPILOT}, confidence : {HIGH}, trace : StampTraces,
     tests : {<<>>}, reviewer : {None}, position : Positions, today : Dates]
    \cup
    [tool : {BOGUS}, confidence : {HIGH, BOGUS}, trace : {<<>>},
     tests : {<<>>}, reviewer : {None}, position : {"top"}, today : Dates]
    \cup
    [tool : {CLAUDE}, confidence : {BOGUS}, trace : {<<>>},
     tests : {<<>>}, reviewer : {None}, position : {"top"}, today : Dates]

\* all sequences of 1..n lines over a set of lines
RECURSIVE LineSeqs(_, _)
LineSeqs(lineset, n) ==
    IF n = 0 THEN {}
    ELSE LET shorter == LineSeqs(lineset, n - 1)
         IN  {<<l>> : l \in lineset} \cup shorter
             \cup {ls \o <<l>> : ls \in shorter, l \in lineset}

\* the file contents of at most n lines: "\n".join(lines); a last empty
\* line is a final newline
Files(lineset, n) == {StrJoin(ls, <<NL>>) : ls \in LineSeqs(lineset, n)}

Init ==
    /\ \/ exists = TRUE /\ content \in Files(StampLines, MaxStampLines)
       \/ exists = FALSE /\ content = <<>>
    /\ suffix \in Suffixes
    /\ ret = NoCall
    /\ stamps = 0
    /\ stamped = {}
    /\ fresh = ~StrContains(content, AI_KEY)
    /\ codec = NoCodec

\* the command `stamp` of cli/main.py: one call of stamp_file; an exception
\* aborts the command, so no call follows one that raised
StampFile ==
    /\ stamps < MaxStamps
    /\ ret.raised = ""
    /\ \E args \in StampRequests :
          LET out == stamp_file(exists, suffix, content, args.tool, args.confidence,
                                args.trace, args.tests, args.reviewer,
                                args.position, args.today)
          IN  /\ content' = out.content
              /\ ret' = [op |-> "stamp_file", raised |-> out.raised, args |-> args,
                         before |-> content, value |-> <<>>]
              /\ stamps' = IF out.raised = "" THEN stamps + 1 ELSE stamps
              /\ stamped' = IF out.raised = "" THEN stamped \cup {args.tool}
                            ELSE stamped
    /\ UNCHANGED <<exists, suffix, fresh, codec>>

Next == StampFile

Spec == Init /\ [][Next]_vars

(***************************************************************************)
(* The scanning runs: the reporters' calls on one file.                    *)
(***************************************************************************)
LINE_CLAUDE == <<"#", " ", "a", "i", ":", "c", "l", "a", "u", "d", "e", ":", "h", "i", "g", "h">>
LINE_BARE == <<"#", " ", "a", "i", ":">>

ScanLines == {LINE_CODE, LINE_BLANK, LINE_CLAUDE, LINE_COPILOT, LINE_BARE}

ScanInit ==
    /\ \/ exists = TRUE /\ content \in Files(ScanLines, MaxLines)
       \/ exists = FALSE /\ content = <<>>
    /\ suffix = SUFFIX_PY
    /\ ret = NoCall
    /\ stamps = 0
    /\ stamped = {}
    /\ fresh = ~StrContains(content, AI_KEY)
    /\ codec = NoCodec

\* what a call that only reads the file leaves in ret: FileNotFoundError
\* when the file is missing, the value otherwise
ReadResult(op, args, value) ==
    [op |-> op, raised |-> IF exists THEN "" ELSE "FileNotFoundError",
     args |-> args, before |-> content, value |-> IF exists THEN value ELSE <<>>]

\* parse_inline_metadata(file_path)
ParseInlineMetadata ==
    /\ ret' = ReadResult("parse_inline_metadata", <<>>, parse_inline_metadata(content))
    /\ UNCHANGED <<exists, suffix, content, stamps, stamped, fresh, codec>>

\* find_ai_hunks(file_path)
FindAiHunks ==
    /\ ret' = ReadResult("find_ai_hunks", <<>>, find_ai_hunks(content))
    /\ UNCHANGED <<exists, suffix, content, stamps, stamped, fresh, codec>>

\* InlineMetadata.parse_comment(comment) on a line of the file
ParseComment ==
    /\ exists
    /\ \E n \in 1..Len(StrSplit(content, <<NL>>)) :
          LET comment == StrSplit(content, <<NL>>)[n]
          IN  ret' = ReadResult("parse_comment", comment, parse_comment(comment))
    /\ UNCHANGED <<exists, suffix, content, stamps, stamped, fresh, codec>>

ScanNext == ParseInlineMetadata \/ FindAiHunks \/ ParseComment

ScanSpec == ScanInit /\ [][ScanNext]_vars

\* ---- the scanning runs on comment lines and look-alikes ----
LINE_REGULAR == <<"#", " ", "J", "u", "s", "t", " ", "a", " ", "r", "e", "g", "u", "l", "a", "r", " ", "c", "o", "m", "m", "e", "n", "t">>
LINE_ITEM == <<"-", " ", "a", "i", ":", "c", "l", "a", "u", "d", "e", ":", "h", "i", "g", "h">>
LINE_SQL == <<"-", "-", " ", "a", "i", ":", "c", "l", "a", "u", "d", "e", ":", "h", "i", "g", "h">>

CommentLines == {LINE_CODE, LINE_CLAUDE, LINE_REGULAR, LINE_ITEM, LINE_SQL, LINE_TEXT}

LineInit ==
    /\ exists = TRUE
    /\ content \in Files(CommentLines, MaxLines)
    /\ suffix = SUFFIX_PY
    /\ ret = NoCall
    /\ stamps = 0
    /\ stamped = {}
    /\ fresh = ~StrContains(content, AI_KEY)
    /\ codec = NoCodec

LineSpec == LineInit /\ [][ScanNext]_vars

(***************************************************************************)
(* The codec runs: a record is encoded, the encoded line is decoded.       *)
(***************************************************************************)
\* the comment styles detect_comment_style can return
Styles == {COMMENT_STYLES[k][2] : k \in 1..Len(COMMENT_STYLES)} \cup {DEFAULT_STYLE}

ID_S1 == <<"S", "1">>
ID_S2 == <<"S", "2">>
ID_T1 == <<"T", "1">>
ID_T2 == <<"T", "2">>
DATE_1 == <<"2", "0", "2", "5", "-", "1", "1", "-", "1", "6">>
DATE_2 == <<"2", "0", "2", "5", "-", "1", "1", "-", "1", "7">>
NAME_AL == <<"a", "l">>

\* the sequences s[1..n], n <= MaxIds
Prefixes(ids) == {SubSeq(ids, 1, n) : n \in 0..MaxIds}

CodecDates == {DATE_1, DATE_2}

\* tag records with a recognized tool; the reviewed value of a record is
\* its reviewer's short name under the date of the encoding
Records ==
    [tool : AITool,
     confidence : {None} \cup {Some(c) : c \in Confidence},
     trace : Prefixes(<<ID_S1, ID_S2, ID_S1, ID_S2>>),
     tests : Prefixes(<<ID_T1, ID_T2, ID_T1, ID_T2>>),
     reviewer : {None, Some(NAME_AL)}]

CodecInit ==
    /\ exists = FALSE
    /\ content = <<>>
    /\ suffix = <<>>
    /\ ret = NoCall
    /\ stamps = 0
    /\ stamped = {}
    /\ fresh = TRUE
    /\ \E r \in Records, s \in Styles :
          codec = [pc |-> "record", r |-> r, style |-> s, today |-> <<>>,
                   line |-> <<>>, out |-> <<>>]

\* encode: format_inline_metadata(r.tool, r.confidence, r.trace, r.tests,
\* r.reviewer, style); the clock gives the date
Encode ==
    /\ codec.pc = "record"
    /\ \E today \in CodecDates :
          codec' = [codec EXCEPT
                      !.pc = "encoded",
                      !.today = today,
                      !.line = format_inline_metadata(
                                   codec.r.tool, codec.r.confidence, codec.r.trace,
                                   codec.r.tests, codec.r.reviewer, codec.style, today)]
    /\ UNCHANGED <<exists, suffix, content, ret, stamps, stamped, fresh>>

\* decode: InlineMetadata.parse_comment(line)
Decode ==
    /\ codec.pc = "encoded"
    /\ codec' = [codec EXCEPT !.pc = "decoded", !.out = parse_comment(codec.line)]
    /\ UNCHANGED <<exists, suffix, content, ret, stamps, stamped, fresh>>

CodecNext == Encode \/ Decode

CodecSpec == CodecInit /\ [][CodecNext]_vars

(***************************************************************************)
(* Properties of the hunk extractor, checked under ScanSpec.               *)
(***************************************************************************)
\* the state after find_ai_hunks returned
HunksReturned == ret.op = "find_ai_hunks" /\ ret.raised = ""

\* the located tags of the file, as the scanner returns them
LocatedTags == parse_inline_metadata(content)

\* the number of lines of the file, as the code counts them
LineCount == Len(StrSplit(content, <<NL>>))

\* C1: next-tag-or-EOF rule: find_ai_hunks returns one hunk per located tag,
\* in order; the hunk of tag i starts on the tag's line n_i and ends on
\* n_{i+1} - 1 when a next tag exists and on the last line L otherwise.
C1_NextTagOrEof ==
    HunksReturned =>
        /\ Len(ret.value) = Len(LocatedTags)
        /\ \A i \in 1..Len(ret.value) :
              /\ ret.value[i][1] = LocatedTags[i][1]
              /\ ret.value[i][2] = IF i < Len(LocatedTags)
                                   THEN LocatedTags[i + 1][1] - 1
                                   ELSE LineCount

\* C2: the hunks of one scan never overlap: each hunk ends strictly before
\* the next one starts, and each hunk starts on its located tag's line.
C2_HunksNeverOverlap ==
    HunksReturned =>
        /\ Len(ret.value) = Len(LocatedTags)
        /\ \A i \in 1..Len(ret.value) : ret.value[i][1] = LocatedTags[i][1]
        /\ \A i \in 1..(Len(ret.value) - 1) : ret.value[i][2] < ret.value[i + 1][1]

\* find_ai_hunks returned two hunks or more, two of them on adjacent lines
C2_Witness ==
    /\ HunksReturned
    /\ Len(ret.value) >= 2
    /\ \E i \in 1..(Len(ret.value) - 1) : ret.value[i + 1][1] = ret.value[i][1] + 1

\* C3: when the file has a located tag, the last hunk ends on the last
\* line L of the file (a single tag on the last line N gives (N, N)).
C3_LastHunkEndsAtL ==
    (HunksReturned /\ Len(LocatedTags) > 0) =>
        ret.value[Len(ret.value)][2] = LineCount

\* C4: a tag on line N directly followed by a tag on line N + 1 gets the
\* hunk (N, N); no hunk ends before it starts.
C4_AdjacentTagsLengthOne ==
    HunksReturned =>
        \A i \in 1..(Len(ret.value) - 1) :
            LocatedTags[i + 1][1] = LocatedTags[i][1] + 1 =>
                /\ ret.value[i][1] = LocatedTags[i][1]
                /\ ret.value[i][2] = LocatedTags[i][1]

(***************************************************************************)
(* Properties of the stamper, checked under Spec.                          *)
(***************************************************************************)
\* the state after stamp_file returned normally
StampReturned == ret.op = "stamp_file" /\ ret.raised = ""

\* the line stamp_file encoded for its arguments
StampedLine ==
    format_inline_metadata(ret.args.tool, Some(ret.args.confidence), ret.args.trace,
                           ret.args.tests, ret.args.reviewer,
                           detect_comment_style(suffix), ret.args.today)

Lines(text) == StrSplit(text, <<NL>>)

\* the line numbers of the located tags of text whose tool is `tool`
TagLinesOf(text, tool) ==
    LET tags == parse_inline_metadata(text)
    IN  {tags[k][1] : k \in {j \in 1..Len(tags) : tags[j][2].tool = Some(tool)}}

\* how many lines of text are equal to line
Occurrences(text, line) == Cardinality({n \in 1..Len(Lines(text)) : Lines(text)[n] = line})

\* C5: when the file holds a tag line of the tool being stamped, stamp_file
\* replaces exactly that line by the re-encoded record: the number of lines
\* and every other line stay as they were.
C5_ReplacesSameToolTagOnly ==
    (StampReturned /\ TagLinesOf(ret.before, ret.args.tool) # {}) =>
        /\ Len(Lines(content)) = Len(Lines(ret.before))
        /\ \E n \in TagLinesOf(ret.before, ret.args.tool) :
              /\ Lines(content)[n] = StampedLine
              /\ \A m \in 1..Len(Lines(content)) :
                    m # n => Lines(content)[m] = Lines(ret.before)[m]

\* C6: from a file without tags, any sequence of successful stamp_file calls
\* leaves at most one tag line per tool, and every tool stamped so far still
\* has its tag in the file.
C6_NeverDuplicates ==
    fresh =>
        /\ \A tool \in AITool : Cardinality(TagLinesOf(content, tool)) <= 1
        /\ \A tool \in stamped : StrContains(content, AI_KEY \o tool)

\* C7: stamping is idempotent: stamping the stamped file again with the same
\* arguments gives the same content.
C7_Idempotent ==
    StampReturned =>
        stamp_file(exists, suffix, content, ret.args.tool, ret.args.confidence,
                   ret.args.trace, ret.args.tests, ret.args.reviewer,
                   ret.args.position, ret.args.today).content = content

\* C8: when the file holds no located tag of the tool being stamped,
\* stamp_file inserts exactly one new encoded tag line, so that the file has
\* a tag of that tool afterwards.
C8_InsertsWhenAbsent ==
    (StampReturned /\ TagLinesOf(ret.before, ret.args.tool) = {}) =>
        /\ Occurrences(content, StampedLine) = Occurrences(ret.before, StampedLine) + 1
        /\ StrContains(content, AI_KEY \o ret.args.tool)

(***************************************************************************)
(* Properties of the codec, checked under CodecSpec and LineSpec.          *)
(***************************************************************************)
\* the requirement ids of a decoded trace value
DecodedIds(trace) == IF trace = None THEN <<>> ELSE StrSplit(trace[1], COMMA)

\* a decoded list, [] when the key is absent
DecodedList(list) == IF list = None THEN <<>> ELSE list[1]

\* the `reviewed` value of a record encoded on the date today: date:name
ReviewedText(reviewer, today) ==
    IF reviewer = None THEN None ELSE Some(today \o COLON \o reviewer[1])

\* C9: round trip: decoding the line encoded from a record r with a
\* recognized tool, in any comment style the resolver returns, gives a record
\* with r's tool, confidence, trace ids, test ids and reviewed value.
C9_RoundTrip ==
    codec.pc = "decoded" =>
        /\ codec.out # None
        /\ codec.out[1].tool = Some(codec.r.tool)
        /\ codec.out[1].confidence = codec.r.confidence
        /\ DecodedIds(codec.out[1].trace) = codec.r.trace
        /\ DecodedList(codec.out[1].tests) = codec.r.tests
        /\ codec.out[1].reviewed = ReviewedText(codec.r.reviewer, codec.today)

\* the markers of the comment styles: the prefixes of COMMENT_STYLES and the
\* two block pairs
STYLE_MARKERS ==
    <<<<"#">>, <<"/", "/">>, <<"-", "-">>, BLOCK_C, BLOCK_C_END, BLOCK_ML, BLOCK_ML_END>>

\* a line without its comment markers and surrounding whitespace
StripStyleMarkers(line) == Strip(remove_markers(Strip(line), STYLE_MARKERS))

\* C10: a line that does not begin with `ai:` once its comment markers and
\* surrounding whitespace are stripped is never taken for a tag:
\* parse_comment returns None for it and parse_inline_metadata returns no
\* located tag on it.
C10_NonTagNeverIdentified ==
    /\ (ret.op = "parse_comment" /\ ~StartsWith(StripStyleMarkers(ret.args), AI_KEY))
           => ret.value = None
    /\ (ret.op = "parse_inline_metadata" /\ ret.raised = "")
           => \A k \in 1..Len(ret.value) :
                  StartsWith(StripStyleMarkers(Lines(content)[ret.value[k][1]]), AI_KEY)

(***************************************************************************)
(* Properties of the file scanner, checked under ScanSpec.                 *)
(***************************************************************************)
\* the state after parse_inline_metadata returned
ScanReturned == ret.op = "parse_inline_metadata" /\ ret.raised = ""

\* the numbers of the lines of text that the scanner's pattern recognizes
TagLineNumbers(text) ==
    {n \in 1..Len(Lines(text)) : metadata_pattern(Lines(text)[n]) # None}

LINE_SHEBANG == <<"#", "!", "s">>
LINE_CODING == <<"#", " ", "c", "o", "d", "i", "n", "g", ":", "u">>

InsertLines == {LINE_CODE, LINE_BLANK, LINE_SHEBANG, LINE_CODING, LINE_TEXT}

InsertInit ==
    /\ \/ exists = TRUE /\ content \in Files(InsertLines, MaxLines)
       \/ exists = FALSE /\ content = <<>>
    /\ suffix = SUFFIX_PY
    /\ ret = NoCall
    /\ stamps = 0
    /\ stamped = {}
    /\ fresh = ~StrContains(content, AI_KEY)
    /\ codec = NoCodec

\* the command `stamp` of cli/main.py, as the first call of the run
StampOnce ==
    /\ ret = NoCall
    /\ \E args \in StampRequests :
          LET out == stamp_file(exists, suffix, content, args.tool, args.confidence,
                                args.trace, args.tests, args.reviewer,
                                args.position, args.today)
          IN  /\ content' = out.content
              /\ ret' = [op |-> "stamp_file", raised |-> out.raised, args |-> args,
                         before |-> content, value |-> <<>>]
              /\ stamps' = IF out.raised = "" THEN stamps + 1 ELSE stamps
              /\ stamped' = IF out.raised = "" THEN stamped \cup {args.tool}
                            ELSE stamped
    /\ UNCHANGED <<exists, suffix, fresh, codec>>

InsertNext == StampOnce

InsertSpec == InsertInit /\ [][InsertNext]_vars

(***************************************************************************)
(* Properties of the insertion, checked under InsertSpec.                  *)
(***************************************************************************)
\* a line that holds an encoding declaration, by substring
IsEncodingLine(line) == StrContains(line, CODING) \/ StrContains(line, ENCODING)

\* how many lines the tag goes after: the leading shebang line, and the
\* encoding declaration that follows that shebang
LinesBeforeTopTag(lines) ==
    IF StartsWith(lines[1], SHEBANG)
    THEN IF Len(lines) >= 2 /\ IsEncodingLine(lines[2]) THEN 2 ELSE 1
    ELSE 0

\* C12: with position top and no tag of the tool in the file, the new tag
\* line goes right after the leading shebang line when there is one, and
\* after the encoding declaration that follows that shebang when there is
\* one; in every other case it becomes line 1; the original lines are all
\* kept, in their order.
C12_TopAfterShebangAndEncoding ==
    (StampReturned /\ ret.args.position = "top"
        /\ TagLinesOf(ret.before, ret.args.tool) = {}) =>
        Lines(content) =
            ListInsert(Lines(ret.before), LinesBeforeTopTag(Lines(ret.before)),
                       StampedLine)

\* C13: with position bottom and no tag of the tool in the file, the stamped
\* file ends with exactly one blank line, the tag line and one newline after
\* the tag, whatever the original content.
C13_BottomAfterOneBlankLine ==
    (StampReturned /\ ret.args.position = "bottom"
        /\ TagLinesOf(ret.before, ret.args.tool) = {}) =>
        LET ls == Lines(content)
            n == Len(ls)
        IN  /\ n >= 3
            /\ ls[n] = <<>>
            /\ ls[n - 1] = StampedLine
            /\ ls[n - 2] = <<>>
            /\ n >= 4 => ls[n - 3] # <<>>

\* the state after stamp_file was called with a tool or a confidence that
\* is not supported
InvalidStampCall ==
    /\ ret.op = "stamp_file"
    /\ (ret.args.tool \notin AITool \/ ret.args.confidence \notin Confidence)

\* C14: stamp_file called with an unsupported tool or confidence raises and
\* leaves the content of the file as it was; on an existing file the error
\* is the ValueError of the tool when the tool is unsupported and the
\* ValueError of the confidence otherwise.
C14_InvalidInputFailsBeforeWrite ==
    InvalidStampCall =>
        /\ ret.raised # ""
        /\ content = ret.before
        /\ exists =>
              ret.raised = IF ret.args.tool \notin AITool
                           THEN "ValueError: Invalid AI tool"
                           ELSE "ValueError: Invalid confidence"

\* stamp_file was called with a supported tool and an unsupported confidence
\* on a file that has text
C14_Witness ==
    /\ InvalidStampCall
    /\ exists
    /\ ret.args.tool \in AITool
    /\ ret.raised = "ValueError: Invalid confidence"
    /\ content # <<>>

(***************************************************************************)
(* The decoding runs: the reporters' calls on a one-line file whose tag    *)
(* line is written field by field.                                         *)
(***************************************************************************)
WEIRDTOOL == <<"w", "e", "i", "r", "d", "t", "o", "o", "l">>
MEDIUM_WORD == <<"m", "e", "d", "i", "u", "m">>
EXTRA_KEY == <<"k", "e", "y", ":", "v", "a", "l", "u", "e">>
EXTRA_WORD == <<"n", "o", "t", "e">>

\* what is written on the line: the tool token, the confidence token if
\* any, the trace and test identifiers, the separator of the test
\* identifiers, and a last part that is no field of the format, if any
TagFields ==
    [tool : {CLAUDE, OTHER_, WEIRDTOOL},
     confidence : {None, Some(HIGH), Some(MEDIUM), Some(LOW), Some(MEDIUM_WORD),
                   Some(BOGUS)},
     trace : Prefixes(<<ID_S1, ID_S2, ID_S1, ID_S2>>),
     tests : Prefixes(<<ID_T1, ID_T2, ID_T1, ID_T2>>),
     sep : {<<",">>, <<",", " ">>},
     extra : {None, Some(EXTRA_KEY), Some(EXTRA_WORD)}]

\* the line `# ai:<tool>[:<confidence>] [| trace:...] [| test:...] [| extra]`
TagText(w) ==
    LET p_ai == <<AI_KEY \o w.tool
                  \o (IF w.confidence = None THEN <<>> ELSE COLON \o w.confidence[1])>>
        p_trace == IF Len(w.trace) > 0
                   THEN <<KEY_TRACE \o COLON \o StrJoin(w.trace, COMMA)>> ELSE <<>>
        p_test == IF Len(w.tests) > 0
                  THEN <<KEY_TEST \o COLON \o StrJoin(w.tests, w.sep)>> ELSE <<>>
        p_extra == IF w.extra = None THEN <<>> ELSE <<w.extra[1]>>
    IN  <<"#", " ">> \o StrJoin(p_ai \o p_trace \o p_test \o p_extra, <<" ", "|", " ">>)

DecodeInit ==
    /\ exists = TRUE
    /\ suffix = SUFFIX_PY
    /\ ret = NoCall
    /\ stamps = 0
    /\ stamped = {}
    /\ fresh = FALSE
    /\ \E w \in TagFields :
          /\ content = TagText(w)
          /\ codec = [pc |-> "written", w |-> w]

DecodeSpec == DecodeInit /\ [][ScanNext]_vars

(***************************************************************************)
(* Properties of the decoders, checked under DecodeSpec.                   *)
(***************************************************************************)
\* the state after InlineMetadata.parse_comment returned for the line
CommentDecoded == ret.op = "parse_comment"

\* the fields written on the line
Written == codec.w

\* C15: decoding a tag line whose tool token is not a recognized tool gives
\* a record whose tool is `other`: parse_comment returns such a record, and
\* the record of the tag that parse_inline_metadata locates on the line has
\* tool `other` too, never the token as it is written.
C15_UnknownToolDecodesToOther ==
    Written.tool \notin AITool =>
        /\ CommentDecoded =>
              ret.value # None /\ ret.value[1].tool = Some(OTHER_)
        /\ ScanReturned =>
              Len(ret.value) = 1 /\ ret.value[1][2].tool = Some(OTHER_)

\* the record decoded from the line written with the fields w
DecodedFrom(w) == parse_comment(TagText(w))

\* C16: the third token of the tool field becomes the record's confidence
\* exactly when it is `high`, `med` or `low`; with any other token the
\* confidence is absent and the other fields are those of the same line
\* written without the token.
C16_ConfidenceOnlyWhenRecognized ==
    CommentDecoded =>
        /\ ret.value # None
        /\ ret.value[1].confidence =
              IF Written.confidence # None /\ Written.confidence[1] \in {HIGH, MEDIUM, LOW}
              THEN Written.confidence ELSE None
        /\ [ret.value[1] EXCEPT !.confidence = None] =
              DecodedFrom([Written EXCEPT !.confidence = None])[1]

\* parse_comment returned for a line whose third token is `medium`, written
\* with test identifiers
C16_Witness ==
    /\ CommentDecoded
    /\ Written.confidence = Some(MEDIUM_WORD)
    /\ Len(Written.tests) > 0
    /\ ret.value # None
    /\ ret.value[1].tests # None

\* C17: parse_comment returns a record for every line that has the tool
\* field, and a last part with a key that is not recognized changes nothing:
\* the record is the one of the same line written without that part.
C17_UnknownKeyIgnored ==
    CommentDecoded =>
        /\ ret.value # None
        /\ ret.value = DecodedFrom([Written EXCEPT !.extra = None])

\* parse_comment returned for a line that ends with `| key:value` after a
\* test field
C17_Witness ==
    /\ CommentDecoded
    /\ Written.extra = Some(EXTRA_KEY)
    /\ Len(Written.tests) > 0
    /\ ret.value # None

\* C18: the value of a trace field is decoded to the sequence of its
\* comma-separated requirement identifiers, by parse_comment and in the
\* record of the tag that parse_inline_metadata locates on the line.
C18_TraceIsSequence ==
    Len(Written.trace) > 0 =>
        /\ CommentDecoded =>
              ret.value # None /\ ret.value[1].trace = Some(Written.trace)
        /\ ScanReturned =>
              Len(ret.value) = 1 /\ ret.value[1][2].trace = Some(Written.trace)

\* C19: the value of a test field is decoded by parse_comment to the
\* sequence of its comma-separated identifiers, each without surrounding
\* whitespace, in the order written.
C19_TestsSplitAndTrimmed ==
    (CommentDecoded /\ Len(Written.tests) > 0) =>
        /\ ret.value # None
        /\ ret.value[1].tests = Some(Written.tests)

\* parse_comment returned for a line with two test identifiers or more,
\* written with a space after each comma
C19_Witness ==
    /\ CommentDecoded
    /\ Len(Written.tests) >= 2
    /\ Written.sep # COMMA
    /\ ret.value # None

(***************************************************************************)
(* Properties of the encoder, checked under CodecSpec.                     *)
(***************************************************************************)
\* the fields of a record in the fixed order, joined by ` | `: the tool
\* with the confidence when there is one, the trace and test identifiers
\* when there are any, the reviewed value when there is a reviewer
CanonicalBody(r, today) ==
    LET f_ai == <<AI_KEY \o r.tool
                  \o (IF r.confidence = None THEN <<>> ELSE COLON \o r.confidence[1])>>
        f_trace == IF r.trace = <<>> THEN <<>>
                   ELSE <<KEY_TRACE \o COLON \o StrJoin(r.trace, COMMA)>>
        f_test == IF r.tests = <<>> THEN <<>>
                  ELSE <<KEY_TEST \o COLON \o StrJoin(r.tests, COMMA)>>
        f_rev == IF r.reviewer = None THEN <<>>
                 ELSE <<KEY_REVIEWED \o COLON \o ReviewedText(r.reviewer, today)[1]>>
    IN  StrJoin(f_ai \o f_trace \o f_test \o f_rev, <<" ", "|", " ">>)

\* the body in a comment of the style: prefix, space, body, and for a block
\* style a space and the closing marker
WrapInStyle(style, body) ==
    IF style = BLOCK_ML THEN style \o <<" ">> \o body \o <<" ">> \o BLOCK_ML_END
    ELSE IF style = BLOCK_C THEN style \o <<" ">> \o body \o <<" ">> \o BLOCK_C_END
    ELSE style \o <<" ">> \o body

\* C20: format_inline_metadata gives the canonical tag text: tool with the
\* confidence when there is one, then trace, test and reviewed, joined by
\* ` | `, trace and test left out when empty and reviewed when absent,
\* wrapped in the comment style.
C20_CanonicalText ==
    codec.pc \in {"encoded", "decoded"} =>
        codec.line = WrapInStyle(codec.style, CanonicalBody(codec.r, codec.today))

(***************************************************************************)
(* The resolver runs: detect_comment_style on a file path.                 *)
(***************************************************************************)
\* the extensions of the documented table with their prefixes
DOCUMENTED_STYLES ==
    <<<<<<".", "p", "y">>, <<"#">>>>, <<<<".", "r", "b">>, <<"#">>>>, <<<<".", "s", "h">>, <<"#">>>>, <<<<".", "y", "a", "m", "l">>, <<"#">>>>,
      <<<<".", "y", "m", "l">>, <<"#">>>>, <<<<".", "t", "o", "m", "l">>, <<"#">>>>,
      <<<<".", "j", "s">>, <<"/", "/">>>>, <<<<".", "t", "s">>, <<"/", "/">>>>, <<<<".", "j", "a", "v", "a">>, <<"/", "/">>>>, <<<<".", "c">>, <<"/", "/">>>>,
      <<<<".", "c", "p", "p">>, <<"/", "/">>>>, <<<<".", "g", "o">>, <<"/", "/">>>>, <<<<".", "r", "s">>, <<"/", "/">>>>, <<<<".", "p", "h", "p">>, <<"/", "/">>>>,
      <<<<".", "s", "q", "l">>, <<"-", "-">>>>, <<<<".", "l", "u", "a">>, <<"-", "-">>>>>>

DocumentedExtensions == {DOCUMENTED_STYLES[k][1] : k \in 1..Len(DOCUMENTED_STYLES)}

\* extensions that no table holds, and no extension at all
UnknownExtensions == {<<>>, <<".", "t", "x", "t">>, <<".", "p", "y", "c">>, <<".", "p">>}

\* str.upper() on the letters a-z
Upper(s) ==
    [k \in 1..Len(s) |->
        IF \E u \in 1..Len(LOWERCASE) : LOWERCASE[u] = s[k]
        THEN UPPERCASE[CHOOSE u \in 1..Len(LOWERCASE) : LOWERCASE[u] = s[k]]
        ELSE s[k]]

\* every upper/lower-case spelling of an extension
Spellings(ext) ==
    {[k \in 1..Len(ext) |-> IF k \in up THEN Upper(ext)[k] ELSE ext[k]] :
        up \in SUBSET (1..Len(ext))}

\* what comes before the extension in the path
Stems == {<<"a">>, <<"a", ".", "b">>, <<"d", ".", "c", "/", "a">>}

ResolveInit ==
    /\ exists = FALSE
    /\ content = <<>>
    /\ ret = NoCall
    /\ stamps = 0
    /\ stamped = {}
    /\ fresh = TRUE
    /\ \E ext \in DocumentedExtensions \cup UnknownExtensions :
          \E spelled \in Spellings(ext), stem \in Stems :
              /\ suffix = PathSuffix(stem \o spelled)
              /\ codec = [pc |-> "path", ext |-> ext, file_path |-> stem \o spelled]

\* detect_comment_style(file_path)
DetectCommentStyle ==
    /\ ret.op = "none"
    /\ ret' = [op |-> "detect_comment_style", raised |-> "", args |-> codec.file_path,
               before |-> <<>>, value |-> detect_comment_style(PathSuffix(codec.file_path))]
    /\ UNCHANGED <<exists, suffix, content, stamps, stamped, fresh, codec>>

ResolveNext == DetectCommentStyle

ResolveSpec == ResolveInit /\ [][ResolveNext]_vars

(***************************************************************************)
(* Properties of the resolver, checked under ResolveSpec.                  *)
(***************************************************************************)
\* the state after detect_comment_style returned
StyleResolved == ret.op = "detect_comment_style"

\* C21: detect_comment_style returns a style for every path: the documented
\* prefix for each documented extension in any upper/lower-case spelling,
\* and the default `#` for an extension of no table and for a path without
\* extension.
C21_ResolveTotalCaseInsensitive ==
    StyleResolved =>
        /\ ret.raised = ""
        /\ \A k \in 1..Len(DOCUMENTED_STYLES) :
              codec.ext = DOCUMENTED_STYLES[k][1] => ret.value = DOCUMENTED_STYLES[k][2]
        /\ codec.ext \in UnknownExtensions => ret.value = DEFAULT_STYLE

\* detect_comment_style returned `--` for a path spelled with upper-case
\* letters in its extension, under a directory whose name has a dot
C21_Witness ==
    /\ StyleResolved
    /\ ret.value = <<"-", "-">>
    /\ PathSuffix(codec.file_path) # codec.ext
    /\ PathName(codec.file_path) # codec.file_path

(***************************************************************************)
(* Files without tags, checked under LineSpec.                             *)
(***************************************************************************)
\* no line of text begins with `ai:` once its comment markers and
\* surrounding whitespace are stripped
NoTagLines(text) ==
    \A n \in 1..Len(Lines(text)) : ~StartsWith(StripStyleMarkers(Lines(text)[n]), AI_KEY)

\* C22: for a file with no tag lines parse_inline_metadata and find_ai_hunks
\* raise nothing and return the empty sequence.
C22_NoTagsGivesEmpty ==
    (exists /\ NoTagLines(content)
        /\ ret.op \in {"parse_inline_metadata", "find_ai_hunks"}) =>
        /\ ret.raised = ""
        /\ ret.value = <<>>

(***************************************************************************)
(* The commit-message runs: CommitMessage.parse on a message written in    *)
(* the convention `[AI:tool:conf] type(scope): subject` with body lines.   *)
(***************************************************************************)
\* what is written in the message: the AI tag if any, the type, the scope
\* if any, the subject, the identifiers of the Trace: and Test: lines, the
\* separator of the identifiers, and the reviewer if any
CommitFields ==
    [tag : {None, Some(<<"A", "I", ":", "c", "l", "a", "u", "d", "e", ":", "h", "i", "g", "h">>)},
     type : {<<"f", "e", "a", "t">>},
     scope : {None, Some(<<"a", "u", "t", "h">>)},
     subject : {<<"a", "d", "d", " ", "x">>, <<"a", "d", "d", ":", " ", "x">>},
     trace : Prefixes(<<ID_S1, ID_S2, ID_S1, ID_S2>>),
     tests : Prefixes(<<ID_T1, ID_T2, ID_T1, ID_T2>>),
     sep : {<<",">>, <<",", " ">>},
     reviewer : {None, Some(<<"A", "I", "+", "a", "l", "@", "x">>)}]

\* the message: the first line and one body line per field that is there
CommitText(m) ==
    LET first == (IF m.tag = None THEN <<>> ELSE <<"[">> \o m.tag[1] \o <<"]", " ">>)
                 \o m.type
                 \o (IF m.scope = None THEN <<>> ELSE <<"(">> \o m.scope[1] \o <<")">>)
                 \o <<":", " ">> \o m.subject
        l_trace == IF Len(m.trace) > 0
                   THEN <<BODY_TRACE \o <<" ">> \o StrJoin(m.trace, m.sep)>> ELSE <<>>
        l_test == IF Len(m.tests) > 0
                  THEN <<BODY_TEST \o <<" ">> \o StrJoin(m.tests, m.sep)>> ELSE <<>>
        l_rev == IF m.reviewer = None THEN <<>>
                 ELSE <<BODY_REVIEWED_BY \o <<" ">> \o m.reviewer[1]>>
    IN  StrJoin(<<first>> \o l_trace \o l_test \o l_rev, <<NL>>)

CommitInit ==
    /\ exists = FALSE
    /\ suffix = <<>>
    /\ ret = NoCall
    /\ stamps = 0
    /\ stamped = {}
    /\ fresh = TRUE
    /\ \E m \in CommitFields :
          /\ content = CommitText(m)
          /\ codec = [pc |-> "message", m |-> m]

\* CommitMessage.parse(message)
ParseCommitMessage ==
    /\ ret.op = "none"
    /\ ret' = [op |-> "CommitMessage.parse", raised |-> "", args |-> content,
               before |-> <<>>, value |-> CommitMessage_parse(content)]
    /\ UNCHANGED <<exists, suffix, content, stamps, stamped, fresh, codec>>

CommitNext == ParseCommitMessage

CommitSpec == CommitInit /\ [][CommitNext]_vars

(***************************************************************************)
(* Properties of CommitMessage.parse, checked under CommitSpec.            *)
(***************************************************************************)
\* the state after CommitMessage.parse returned
CommitParsed == ret.op = "CommitMessage.parse"

\* a list of identifiers as a field: None when there is no such body line
ListField(ids) == IF ids = <<>> THEN None ELSE Some(ids)

LineRanges ==
    {<<a, b>> : a \in 0..MaxLineNumber, b \in 0..MaxLineNumber}
    \cup {<<1>>, <<1, 2, 3>>}

BlockInit ==
    /\ exists = FALSE
    /\ suffix = <<>>
    /\ content = <<>>
    /\ ret = NoCall
    /\ stamps = 0
    /\ stamped = {}
    /\ fresh = TRUE
    /\ codec = [pc |-> "blocks", blocks |-> <<>>]

\* BlockMetadata(..., lines=lines, ai=ai); the block that is built joins the
\* blocks of the FileMetadata
NewBlock ==
    /\ Len(codec.blocks) < MaxBlocks
    /\ \E lines \in LineRanges, ai \in BOOLEAN :
          LET out == BlockMetadata(lines, ai)
          IN  /\ ret' = [op |-> "BlockMetadata", raised |-> out.raised, args |-> lines,
                         before |-> codec.blocks, value |-> <<>>]
              /\ codec' = IF out.raised = ""
                          THEN [codec EXCEPT !.blocks = Append(@, out.block)]
                          ELSE codec
    /\ UNCHANGED <<exists, suffix, content, stamps, stamped, fresh>>

\* FileMetadata(file, blocks=blocks).ai_percentage()
AiPercentage ==
    /\ ret' = [op |-> "ai_percentage", raised |-> "", args |-> <<>>,
               before |-> codec.blocks, value |-> ai_percentage(codec.blocks)]
    /\ UNCHANGED <<exists, suffix, content, stamps, stamped, fresh, codec>>

BlockNext == NewBlock \/ AiPercentage

BlockSpec == BlockInit /\ [][BlockNext]_vars

(***************************************************************************)
(* Properties of the blocks, checked under BlockSpec.                      *)
(***************************************************************************)
\* the number of lines of a block [start, end]
LineCountOf(block) == block.lines[2] - block.lines[1] + 1

\* the sum of the line counts of the blocks that pass the test keep
RECURSIVE SumLines(_, _)
SumLines(blocks, only_ai) ==
    IF blocks = <<>> THEN 0
    ELSE (IF only_ai /\ ~Head(blocks).ai THEN 0 ELSE LineCountOf(Head(blocks)))
         + SumLines(Tail(blocks), only_ai)

\* C24: ai_percentage returns 0 for a file without blocks and otherwise
\* 100 * (lines of the AI blocks) / (lines of all blocks), a value between 0
\* and 100.
C24_AiPercentage ==
    ret.op = "ai_percentage" =>
        /\ ret.value.den > 0
        /\ codec.blocks = <<>> => ret.value.num = 0
        /\ codec.blocks # <<>> =>
              /\ SumLines(codec.blocks, FALSE) > 0
              /\ ret.value.num * SumLines(codec.blocks, FALSE)
                     = 100 * SumLines(codec.blocks, TRUE) * ret.value.den
        /\ 0 <= ret.value.num
        /\ ret.value.num <= 100 * ret.value.den

\* ai_percentage returned a value strictly between 0 and 100 for blocks of
\* different line counts
C24_Witness ==
    /\ ret.op = "ai_percentage"
    /\ Len(codec.blocks) >= 2
    /\ LineCountOf(codec.blocks[1]) # LineCountOf(codec.blocks[2])
    /\ 0 < ret.value.num
    /\ ret.value.num < 100 * ret.value.den

\* C25: BlockMetadata is built exactly for a `lines` of two numbers
\* [start, end] with start >= 1 and end >= start, and raises a validation
\* error for any other; every block that exists has a positive line count.
C25_BlockLinesValidated ==
    /\ ret.op = "BlockMetadata" =>
          /\ ret.raised = "" <=>
                (Len(ret.args) = 2 /\ ret.args[1] >= 1 /\ ret.args[2] >= ret.args[1])
          /\ ret.raised # "" => codec.blocks = ret.before
          /\ ret.raised = "" => Len(codec.blocks) = Len(ret.before) + 1
    /\ \A k \in 1..Len(codec.blocks) : LineCountOf(codec.blocks[k]) > 0

\* BlockMetadata raised for a range whose end is before its start, after a
\* block was built
C25_Witness ==
    /\ ret.op = "BlockMetadata"
    /\ ret.raised # ""
    /\ Len(ret.args) = 2
    /\ ret.args[1] >= 1
    /\ ret.args[2] < ret.args[1]
    /\ Len(codec.blocks) > 0

(***************************************************************************)
(* core/features.py: the feature flags.  The `features` of a FeatureSet    *)
(* are modelled by the `enabled` flag of each key; the keys, the           *)
(* dependencies and the profiles never change.                             *)
(***************************************************************************)
CORE_TRACKING == "core_tracking"
GIT_NOTES == "git_notes"
INLINE_METADATA == "inline_metadata"
REQUIREMENTS == "requirements"
TEST_TRACEABILITY == "test_traceability"
PROMPTS == "prompts"
CONVERSATIONS == "conversations"
AUTO_DETECTION == "auto_detection"
FILE_METADATA == "file_metadata"
WEB_DASHBOARD == "web_dashboard"
IDE_INTEGRATION == "ide_integration"
CI_VALIDATION == "ci_validation"
TEAM_FEATURES == "team_features"
AUDIT_TRAIL == "audit_trail"
REGENERATION == "regeneration"
API_SERVER == "api_server"
METRICS == "metrics"

\* DEFAULT_FEATURES, in the order of the dict: name, enabled, dependencies
DEFAULT_FEATURES ==
    << [name |-> CORE_TRACKING, enabled |-> TRUE, dependencies |-> <<>>],
       [name |-> GIT_NOTES, enabled |-> TRUE, dependencies |-> <<CORE_TRACKING>>],
       [name |-> INLINE_METADATA, enabled |-> TRUE, dependencies |-> <<CORE_TRACKING>>],
       [name |-> REQUIREMENTS, enabled |-> FALSE, dependencies |-> <<CORE_TRACKING>>],
       [name |-> TEST_TRACEABILITY, enabled |-> FALSE, dependencies |-> <<CORE_TRACKING>>],
       [name |-> PROMPTS, enabled |-> FALSE, dependencies |-> <<CORE_TRACKING>>],
       [name |-> CONVERSATIONS, enabled |-> FALSE, dependencies |-> <<PROMPTS>>],
       [name |-> AUTO_DETECTION, enabled |-> FALSE, dependencies |-> <<CORE_TRACKING>>],
       [name |-> FILE_METADATA, enabled |-> FALSE, dependencies |-> <<CORE_TRACKING>>],
       [name |-> WEB_DASHBOARD, enabled |-> FALSE,
        dependencies |-> <<CORE_TRACKING, METRICS>>],
       [name |-> IDE_INTEGRATION, enabled |-> FALSE, dependencies |-> <<CORE_TRACKING>>],
       [name |-> CI_VALIDATION, enabled |-> TRUE, dependencies |-> <<CORE_TRACKING>>],
       [name |-> TEAM_FEATURES, enabled |-> FALSE, dependencies |-> <<CORE_TRACKING>>],
       [name |-> AUDIT_TRAIL, enabled |-> FALSE,
        dependencies |-> <<CORE_TRACKING, GIT_NOTES>>],
       [name |-> REGENERATION, enabled |-> FALSE,
        dependencies |-> <<PROMPTS, CONVERSATIONS, REQUIREMENTS>>],
       [name |-> API_SERVER, enabled |-> FALSE, dependencies |-> <<CORE_TRACKING>>],
       [name |-> METRICS, enabled |-> TRUE, dependencies |-> <<CORE_TRACKING>>] >>

\* DEFAULT_PROFILES
DEFAULT_PROFILES ==
    [minimal |-> <<CORE_TRACKING, GIT_NOTES, INLINE_METADATA>>,
     standard |-> <<CORE_TRACKING, GIT_NOTES, INLINE_METADATA, REQUIREMENTS,
                    TEST_TRACEABILITY, CI_VALIDATION, METRICS>>,
     full |-> <<CORE_TRACKING, GIT_NOTES, INLINE_METADATA, REQUIREMENTS,
                TEST_TRACEABILITY, PROMPTS, CONVERSATIONS, AUTO_DETECTION,
                CI_VALIDATION, METRICS, AUDIT_TRAIL>>,
     team |-> <<CORE_TRACKING, GIT_NOTES, INLINE_METADATA, REQUIREMENTS,
                TEST_TRACEABILITY, CI_VALIDATION, TEAM_FEATURES, WEB_DASHBOARD,
                METRICS, AUDIT_TRAIL>>,
     research |-> <<CORE_TRACKING, GIT_NOTES, INLINE_METADATA, PROMPTS,
                    CONVERSATIONS, METRICS, AUTO_DETECTION>>,
     regeneration |-> <<CORE_TRACKING, GIT_NOTES, INLINE_METADATA, REQUIREMENTS,
                        TEST_TRACEABILITY, PROMPTS, CONVERSATIONS, REGENERATION>>]

\* the elements of a list
ListItems(xs) == {xs[k] : k \in 1..Len(xs)}

\* the keys of self.features
Feature == {config.name : config \in ListItems(DEFAULT_FEATURES)}

\* self.features[feature].dependencies
dependencies(feature) ==
    LET config == CHOOSE c \in ListItems(DEFAULT_FEATURES) : c.name = feature
    IN  config.dependencies

\* create_default_feature_set(): the `enabled` flag of every feature of
\* DEFAULT_FEATURES
create_default_feature_set ==
    [feature \in Feature |->
        (CHOOSE c \in ListItems(DEFAULT_FEATURES) : c.name = feature).enabled]

\* FeatureSet.is_enabled(feature)
is_enabled(features, feature) ==
    IF feature \notin DOMAIN features THEN FALSE ELSE features[feature]

\* disable that clears the flag of the feature and leaves its dependents alone
disable_without_dependents(features, feature) ==
    IF feature \notin DOMAIN features
    THEN [raised |-> "ValueError: Unknown feature", features |-> features]
    ELSE [raised |-> "", features |-> [features EXCEPT ![feature] = FALSE]]

\* FeatureSet.enable(feature): the error it raises ("" when it returns) and
\* the flags after it; enable_dependencies is the loop over
\* config.dependencies, after its first n rounds
RECURSIVE enable(_, _), enable_dependencies(_, _, _)
enable(features, feature) ==
    IF feature \notin DOMAIN features
    THEN [raised |-> "ValueError: Unknown feature", features |-> features]
    ELSE LET deps == dependencies(feature)
             after == enable_dependencies(features, deps, Len(deps))
         IN  [raised |-> "", features |-> [after EXCEPT ![feature] = TRUE]]

enable_dependencies(features, deps, n) ==
    IF n = 0 THEN features
    ELSE LET so_far == enable_dependencies(features, deps, n - 1)
         IN  IF ~is_enabled(so_far, deps[n])
             THEN enable(so_far, deps[n]).features
             ELSE so_far

\* the items of self.features that have `feature` among their dependencies,
\* in the order of the dict
dependents(feature) ==
    SelectSeq(DEFAULT_FEATURES,
              LAMBDA other_config : feature \in ListItems(other_config.dependencies))

\* FeatureSet.disable(feature): the error it raises ("" when it returns) and
\* the flags after it; disable_dependents is the loop over
\* self.features.items(), after the first n of the items that have `feature`
\* among their dependencies (the loop does nothing for the other items)
RECURSIVE disable(_, _), disable_dependents(_, _, _)
disable(features, feature) ==
    IF feature \notin DOMAIN features
    THEN [raised |-> "ValueError: Unknown feature", features |-> features]
    ELSE LET others == dependents(feature)
             after == disable_dependents(features, others, Len(others))
         IN  [raised |-> "", features |-> [after EXCEPT ![feature] = FALSE]]

disable_dependents(features, others, n) ==
    IF n = 0 THEN features
    ELSE LET so_far == disable_dependents(features, others, n - 1)
         IN  IF so_far[others[n].name]
             THEN disable(so_far, others[n].name).features
             ELSE so_far

\* FeatureSet.get_enabled_features()
get_enabled_features(features) == {f \in DOMAIN features : features[f]}

\* the first loop of apply_profile, after its first n rounds: every feature
\* but the three core ones is disabled
RECURSIVE disable_optional(_, _)
disable_optional(features, n) ==
    IF n = 0 THEN features
    ELSE LET so_far == disable_optional(features, n - 1)
             key == DEFAULT_FEATURES[n].name
         IN  IF key \notin {CORE_TRACKING, GIT_NOTES, INLINE_METADATA}
             THEN disable(so_far, key).features
             ELSE so_far

\* the second loop of apply_profile, after its first n rounds: the features
\* of the profile are enabled
RECURSIVE enable_profile(_, _, _)
enable_profile(features, profile, n) ==
    IF n = 0 THEN features
    ELSE enable(enable_profile(features, profile, n - 1), profile[n]).features

\* apply_profile that enables the features of the profile and disables none
apply_profile_without_reset(features, profile_name) ==
    IF profile_name \notin DOMAIN DEFAULT_PROFILES
    THEN [raised |-> "ValueError: Unknown profile", features |-> features]
    ELSE LET profile == DEFAULT_PROFILES[profile_name]
         IN  [raised |-> "",
              features |-> enable_profile(features, profile, Len(profile))]

\* FeatureSet.apply_profile(profile_name)
apply_profile(features, profile_name) ==
    IF profile_name \notin DOMAIN DEFAULT_PROFILES
    THEN [raised |-> "ValueError: Unknown profile", features |-> features]
    ELSE LET profile == DEFAULT_PROFILES[profile_name]
             reset == disable_optional(features, Len(DEFAULT_FEATURES))
         IN  [raised |-> "",
              features |-> enable_profile(reset, profile, Len(profile))]

(***************************************************************************)
(* The feature runs: the default feature set, on which enable, disable and *)
(* apply_profile are called in any order, MaxCalls times at most; `stamps` *)
(* counts the calls.                                                       *)
(***************************************************************************)
\* a name that is no feature and no profile
UNKNOWN_NAME == "unknown"

FeatureInit ==
    /\ exists = FALSE
    /\ suffix = <<>>
    /\ content = <<>>
    /\ ret = NoCall
    /\ stamps = 0
    /\ stamped = {}
    /\ fresh = TRUE
    /\ codec = [pc |-> "features", features |-> create_default_feature_set]

\* feature_set.enable(feature)
EnableFeature ==
    /\ stamps < MaxCalls
    /\ stamps' = stamps + 1
    /\ \E feature \in Feature \cup {UNKNOWN_NAME} :
          LET out == enable(codec.features, feature)
          IN  /\ ret' = [op |-> "enable", raised |-> out.raised, args |-> <<feature>>,
                         before |-> get_enabled_features(codec.features), value |-> <<>>]
              /\ codec' = [codec EXCEPT !.features = out.features]
    /\ UNCHANGED <<exists, suffix, content, stamped, fresh>>

\* feature_set.disable(feature)
DisableFeature ==
    /\ stamps < MaxCalls
    /\ stamps' = stamps + 1
    /\ \E feature \in Feature \cup {UNKNOWN_NAME} :
          LET out == disable(codec.features, feature)
          IN  /\ ret' = [op |-> "disable", raised |-> out.raised, args |-> <<feature>>,
                         before |-> get_enabled_features(codec.features), value |-> <<>>]
              /\ codec' = [codec EXCEPT !.features = out.features]
    /\ UNCHANGED <<exists, suffix, content, stamped, fresh>>

\* feature_set.apply_profile(profile_name)
ApplyProfile ==
    /\ stamps < MaxCalls
    /\ stamps' = stamps + 1
    /\ \E profile_name \in DOMAIN DEFAULT_PROFILES \cup {UNKNOWN_NAME} :
          LET out == apply_profile(codec.features, profile_name)
          IN  /\ ret' = [op |-> "apply_profile", raised |-> out.raised,
                         args |-> <<profile_name>>,
                         before |-> get_enabled_features(codec.features), value |-> <<>>]
              /\ codec' = [codec EXCEPT !.features = out.features]
    /\ UNCHANGED <<exists, suffix, content, stamped, fresh>>

FeatureNext == EnableFeature \/ DisableFeature \/ ApplyProfile

FeatureSpec == FeatureInit /\ [][FeatureNext]_vars

(***************************************************************************)
(* Properties of the feature flags, checked under FeatureSpec.             *)
(***************************************************************************)
\* the features the FeatureSet has enabled
EnabledFeatures == get_enabled_features(codec.features)

\* the features that `feature` depends on, directly or through others
RECURSIVE TransitiveDependencies(_)
TransitiveDependencies(feature) ==
    UNION {{d} \cup TransitiveDependencies(d) : d \in ListItems(dependencies(feature))}

\* the features that depend on `feature`, directly or through others
TransitiveDependents(feature) ==
    {f \in Feature : feature \in TransitiveDependencies(f)}

\* C26: from the default feature set, after any calls of enable, disable and
\* apply_profile every enabled feature has all its dependencies enabled;
\* enable(f) leaves f and its transitive dependencies enabled, disable(f)
\* leaves f and every feature that transitively depends on it disabled.
C26_DependenciesClosed ==
    codec.pc = "features" =>
        /\ \A f \in EnabledFeatures : ListItems(dependencies(f)) \subseteq EnabledFeatures
        /\ (ret.op = "enable" /\ ret.raised = "") =>
              {ret.args[1]} \cup TransitiveDependencies(ret.args[1])
                  \subseteq EnabledFeatures
        /\ (ret.op = "disable" /\ ret.raised = "") =>
              ({ret.args[1]} \cup TransitiveDependents(ret.args[1]))
                  \cap EnabledFeatures = {}

\* disable(prompts) was called while regeneration, which depends on prompts
\* directly and through conversations, was enabled
C26_Witness ==
    /\ codec.pc = "features"
    /\ ret.op = "disable"
    /\ ret.raised = ""
    /\ ret.args[1] = PROMPTS
    /\ {REGENERATION, CONVERSATIONS} \subseteq ret.before
    /\ REGENERATION \notin EnabledFeatures

\* C27: from the default feature set, core_tracking, git_notes and
\* inline_metadata are enabled after any calls of enable, disable and
\* apply_profile.
C27_CoreAlwaysEnabled ==
    codec.pc = "features" =>
        {CORE_TRACKING, GIT_NOTES, INLINE_METADATA} \subseteq EnabledFeatures

\* C28: after apply_profile(p) for a default profile p the enabled features
\* are exactly the features listed in p, whatever was enabled before;
\* apply_profile of an unknown profile name raises and changes no feature.
C28_ProfileAppliedExactly ==
    (codec.pc = "features" /\ ret.op = "apply_profile") =>
        IF ret.args[1] \in {"minimal", "standard", "full", "team", "research",
                            "regeneration"}
        THEN /\ ret.raised = ""
             /\ EnabledFeatures = ListItems(DEFAULT_PROFILES[ret.args[1]])
        ELSE /\ ret.raised # ""
             /\ EnabledFeatures = ret.before

\* apply_profile was called for a profile while a feature outside the profile
\* was enabled and a feature of the profile was not
C28_Witness ==
    /\ codec.pc = "features"
    /\ ret.op = "apply_profile"
    /\ ret.raised = ""
    /\ ret.before \ ListItems(DEFAULT_PROFILES[ret.args[1]]) # {}
    /\ ListItems(DEFAULT_PROFILES[ret.args[1]]) \ ret.before # {}

(***************************************************************************)
(* The stamp-and-scan runs: the command `stamp` run once on a file without *)
(* tags, of any extension of COMMENT_STYLES, and the reporters' calls on   *)
(* the stamped file.                                                       *)
(***************************************************************************)
\* the extensions of the comment-style table
TableExtensions == {COMMENT_STYLES[k][1] : k \in 1..Len(COMMENT_STYLES)}

TagFreeLines == {LINE_CODE, LINE_BLANK}

\* every valid tool and confidence, at the top and at the bottom
TagRequests ==
    [tool : AITool, confidence : Confidence, trace : {<<>>}, tests : {<<>>},
     reviewer : {None}, position : Positions, today : Dates]

RescanInit ==
    /\ exists = TRUE
    /\ content \in Files(TagFreeLines, MaxStampLines) \cup {<<>>}
    /\ suffix \in TableExtensions
    /\ ret = NoCall
    /\ stamps = 0
    /\ stamped = {}
    /\ fresh = TRUE
    /\ codec = NoCodec

\* the command `stamp` of cli/main.py: one call of stamp_file
StampTagFree ==
    /\ ret = NoCall
    /\ \E args \in TagRequests :
          LET out == stamp_file(exists, suffix, content, args.tool, args.confidence,
                                args.trace, args.tests, args.reviewer,
                                args.position, args.today)
          IN  /\ content' = out.content
              /\ ret' = [op |-> "stamp_file", raised |-> out.raised, args |-> args,
                         before |-> content, value |-> <<>>]
              /\ stamps' = IF out.raised = "" THEN stamps + 1 ELSE stamps
              /\ stamped' = IF out.raised = "" THEN stamped \cup {args.tool}
                            ELSE stamped
              /\ codec' = [pc |-> "stamped", request |-> args, before |-> content]
    /\ UNCHANGED <<exists, suffix, fresh>>

\* parse_inline_metadata(file_path) on the stamped file
ScanStamped ==
    /\ codec.pc = "stamped"
    /\ ret' = ReadResult("parse_inline_metadata", <<>>, parse_inline_metadata(content))
    /\ UNCHANGED <<exists, suffix, content, stamps, stamped, fresh, codec>>

\* find_ai_hunks(file_path) on the stamped file
HunksOfStamped ==
    /\ codec.pc = "stamped"
    /\ ret' = ReadResult("find_ai_hunks", <<>>, find_ai_hunks(content))
    /\ UNCHANGED <<exists, suffix, content, stamps, stamped, fresh, codec>>

RescanNext == StampTagFree \/ ScanStamped \/ HunksOfStamped

RescanSpec == RescanInit /\ [][RescanNext]_vars

(***************************************************************************)
(* Properties of stamping and scanning, checked under RescanSpec.          *)
(***************************************************************************)
\* the line stamp_file encoded for the request of the run
RequestedLine ==
    format_inline_metadata(codec.request.tool, Some(codec.request.confidence),
                           codec.request.trace, codec.request.tests,
                           codec.request.reviewer, detect_comment_style(suffix),
                           codec.request.today)

\* the numbers of the lines that stamp_file inserted
InsertedLines == {n \in 1..Len(Lines(content)) : Lines(content)[n] = RequestedLine}

\* C29: after stamp_file on a file with no tags, for every extension of the
\* comment-style table and every valid tool and confidence,
\* parse_inline_metadata and find_ai_hunks return a located tag on the
\* inserted line with that tool and that confidence.
C29_StampedTagFoundAgain ==
    (codec.pc = "stamped" /\ ret.raised = ""
     /\ ret.op \in {"parse_inline_metadata", "find_ai_hunks"}) =>
        /\ InsertedLines # {}
        /\ \A n \in InsertedLines :
              \E k \in 1..Len(ret.value) :
                  LET metadata == ret.value[k][Len(ret.value[k])]
                  IN  /\ ret.value[k][1] = n
                      /\ metadata.tool = Some(codec.request.tool)
                      /\ metadata.confidence = Some(codec.request.confidence)

(***************************************************************************)
(* Agreement of the two recognizers, checked under LineSpec.               *)
(***************************************************************************)
\* the record of the tag that the file scanner locates on a line, None when
\* it locates none
ScannedFrom(line) ==
    IF metadata_pattern(line) = None THEN None
    ELSE _parse_metadata_string(metadata_pattern(line)[1])

\* the scanner and the codec agree on a line: both take it for a tag or
\* neither does, the boundary test of _find_hunk_end says the same, and the
\* two records have the same tool and the same confidence
RecognizersAgree(line, scanned, decoded) ==
    /\ (scanned # None) <=> (decoded # None)
    /\ boundary_pattern(line) <=> (decoded # None)
    /\ (scanned # None /\ decoded # None) =>
          /\ scanned[1].tool = decoded[1].tool
          /\ scanned[1].confidence = decoded[1].confidence

\* C30: for every line, parse_inline_metadata (with the boundary test of
\* _find_hunk_end) treats the line as a tag exactly when
\* InlineMetadata.parse_comment decodes it to a record, and then both report
\* the same tool and confidence.
C30_RecognizersAgree ==
    /\ CommentDecoded => RecognizersAgree(ret.args, ScannedFrom(ret.args), ret.value)
    /\ ScanReturned =>
          \A n \in 1..Len(Lines(content)) :
              LET line == Lines(content)[n]
                  located == {k \in 1..Len(ret.value) : ret.value[k][1] = n}
                  scanned == IF located = {} THEN None
                             ELSE Some(ret.value[CHOOSE k \in located : TRUE][2])
              IN  RecognizersAgree(line, scanned, parse_comment(line))

====
